---- MODULE Spec2Model ----
(***************************************************************************)
(* Model of puzzle_gen.cpp: the constraint evaluator, the backtracking     *)
(* Solver (Solver::backtrack / Solver::solve) and test_puzzle.             *)
(*                                                                         *)
(* A Cell is a pair <<row, col>>, a Domino a pair <<low, high>>, a Region  *)
(* a record [id, cells, type, target_value, linked_region_id], a           *)
(* PlacedDomino a record [domino, row, col, horizontal] and a SolverState  *)
(* a record [placed, used_dominoes, filled_cells, cell_values], where      *)
(* cell_values (a std::map<Cell,int>) is a function whose DOMAIN is its    *)
(* key set.                                                                *)
(***************************************************************************)
EXTENDS Integers, Sequences, FiniteSets, TLC

\* ------------------------------------------------------------------------
\* Bounds of the explored inputs
\* ------------------------------------------------------------------------
MaxPip == 2
MaxTarget == 3
MaxCap == 3
MaxRuns == 2

\* The cap test_puzzle passes to the Solver.
TestPuzzleCap == 3

VARIABLES
    rows,             \* Solver::rows
    cols,             \* Solver::cols
    dominoes,         \* Solver::dominoes
    regions,          \* Solver::regions
    max_solutions,    \* Solver::max_solutions
    solutions,        \* Solver::solutions
    seen_signatures,  \* Solver::seen_signatures
    stack,            \* activation records of backtrack, innermost last
    pc,               \* "idle", "solving", "done", or "cc" / "cc_done"
    count,            \* value returned by the last solve()
    via_test,         \* TRUE when the Solver is the one test_puzzle builds
    solution_out,     \* *solution_out of test_puzzle
    out_written,      \* TRUE once test_puzzle has assigned *solution_out
    runs,             \* completed solve() calls on this Solver
    first_run,        \* count and solutions of the first completed solve()
    cc_in,            \* arguments of a direct call of one function
    cc_out,           \* its return value
    main_pc,          \* position of main
    do_easy1,         \* main: do_easy1
    do_easy2,         \* main: do_easy2
    exclude_list,     \* main: exclude_list
    all_d6,           \* main: all_d6, the tile pool
    easy2_pool,       \* main: easy2_pool
    threads,          \* main: threads, with each thread's locals and position
    joined,           \* number of threads main has joined in the current loop
    found,            \* found_easy1, found_easy2
    result,           \* easy1_result, easy2_result
    result_mutex,     \* index of the thread holding result_mutex, 0 when free
    total_attempts,   \* total_attempts
    invoked,          \* how often each (tier, thread, candidate, parameter)
                      \* was passed to test_puzzle
    running,          \* per tier, the threads started and not yet returned
    calls,            \* test_puzzle calls begun so far, over all tiers
    do_hard,          \* main: do_hard
    d9_remainder,     \* main: d9_remainder
    unused_d6,        \* main: unused_d6
    hard_pool         \* main: hard_pool

solverVars == <<rows, cols, dominoes, regions, max_solutions, solutions,
                seen_signatures, stack, pc, count, via_test, solution_out,
                out_written, runs, first_run, cc_in, cc_out>>

driverVars == <<main_pc, do_easy1, do_easy2, exclude_list, all_d6, easy2_pool,
                threads, joined, found, result, result_mutex, total_attempts,
                invoked, running, calls,
                do_hard, d9_remainder, unused_d6, hard_pool>>

hardVars == <<do_hard, d9_remainder, unused_d6, hard_pool>>

vars == <<rows, cols, dominoes, regions, max_solutions, solutions,
          seen_signatures, stack, pc, count, via_test, solution_out,
          out_written, runs, first_run, cc_in, cc_out,
          main_pc, do_easy1, do_easy2, exclude_list, all_d6, easy2_pool,
          threads, joined, found, result, result_mutex, total_attempts,
          invoked, running, calls,
          do_hard, d9_remainder, unused_d6, hard_pool>>

\* ------------------------------------------------------------------------
\* Cells, dominoes
\* ------------------------------------------------------------------------
\* std::pair<int,int> operator< : the iteration order of set<Cell>.
CellLess(a, b) == a[1] < b[1] \/ (a[1] = b[1] /\ a[2] < b[2])

pips(d) == d[1] + d[2]

\* Elements of a sequence.
Range(s) == {s[i] : i \in 1..Len(s)}

\* ------------------------------------------------------------------------
\* Solver lookups built by the constructor
\* ------------------------------------------------------------------------
\* region_by_id[rid]: the last region of the list carrying that id.
region_by_id(regs, rid) ==
    regs[CHOOSE i \in 1..Len(regs) :
            /\ regs[i].id = rid
            /\ \A j \in (i+1)..Len(regs) : regs[j].id # rid]

\* all_cells: every cell named by some region.
all_cells(regs) == UNION {Range(regs[i].cells) : i \in 1..Len(regs)}

\* cell_to_region[cell]: id of the last region listing the cell.
cell_to_region(regs, cell) ==
    regs[CHOOSE i \in 1..Len(regs) :
            /\ cell \in Range(regs[i].cells)
            /\ \A j \in (i+1)..Len(regs) : cell \notin Range(regs[j].cells)].id

\* ------------------------------------------------------------------------
\* Constraint evaluator
\* ------------------------------------------------------------------------
RECURSIVE SumCells(_, _, _)
SumCells(cells, cell_values, i) ==
    IF i > Len(cells) THEN 0
    ELSE (IF cells[i] \in DOMAIN cell_values THEN cell_values[cells[i]] ELSE 0)
         + SumCells(cells, cell_values, i + 1)

get_region_sum(regs, region_id, cell_values) ==
    SumCells(region_by_id(regs, region_id).cells, cell_values, 1)

RECURSIVE ValsOf(_, _, _)
ValsOf(cells, cell_values, i) ==
    IF i > Len(cells) THEN <<>>
    ELSE (IF cells[i] \in DOMAIN cell_values THEN <<cell_values[cells[i]]>> ELSE <<>>)
         \o ValsOf(cells, cell_values, i + 1)

get_region_values(regs, region_id, cell_values) ==
    ValsOf(region_by_id(regs, region_id).cells, cell_values, 1)

is_region_complete(regs, region_id, filled) ==
    \A i \in 1..Len(region_by_id(regs, region_id).cells) :
        region_by_id(regs, region_id).cells[i] \in filled

\* SUM branch with the incomplete case accepted unconditionally under
\* partial_ok (no upper-bound pruning) and "at most target" when complete.
check_SUM_loose(region, sum, complete, partial_ok) ==
    IF complete THEN sum <= region.target_value
    ELSE partial_ok

\* SUM branch pruning a partial sum that already equals the target.
check_SUM_strict_partial(region, sum, complete, partial_ok) ==
    IF complete THEN sum = region.target_value
    ELSE partial_ok /\ sum < region.target_value

check_SUM(region, sum, complete, partial_ok) ==
    IF complete THEN sum = region.target_value
    ELSE partial_ok /\ sum <= region.target_value

\* EQUAL branch comparing only neighbouring values' first pair.
check_EQUAL_firstpair(vals) ==
    IF Len(vals) < 2 THEN TRUE ELSE vals[2] = vals[1]

check_EQUAL(vals) ==
    IF Len(vals) = 0 THEN TRUE
    ELSE \A i \in 1..Len(vals) : vals[i] = vals[1]

\* LESS / GREATER branch with a non-strict comparison.
check_ORDER_nonstrict(regs, region, cell_values, filled, complete, partial_ok) ==
    IF ~complete THEN partial_ok
    ELSE IF ~is_region_complete(regs, region.linked_region_id, filled) THEN partial_ok
    ELSE IF region.type = "LESS"
         THEN get_region_sum(regs, region.id, cell_values)
                <= get_region_sum(regs, region.linked_region_id, cell_values)
         ELSE get_region_sum(regs, region.id, cell_values)
                >= get_region_sum(regs, region.linked_region_id, cell_values)

\* LESS / GREATER branch with the two sums swapped.
check_ORDER_swapped(regs, region, cell_values, filled, complete, partial_ok) ==
    IF ~complete THEN partial_ok
    ELSE IF ~is_region_complete(regs, region.linked_region_id, filled) THEN partial_ok
    ELSE IF region.type = "LESS"
         THEN get_region_sum(regs, region.id, cell_values)
                > get_region_sum(regs, region.linked_region_id, cell_values)
         ELSE get_region_sum(regs, region.id, cell_values)
                < get_region_sum(regs, region.linked_region_id, cell_values)

check_ORDER(regs, region, cell_values, filled, complete, partial_ok) ==
    IF ~complete THEN partial_ok
    ELSE IF ~is_region_complete(regs, region.linked_region_id, filled) THEN partial_ok
    ELSE IF region.type = "LESS"
         THEN get_region_sum(regs, region.id, cell_values)
                < get_region_sum(regs, region.linked_region_id, cell_values)
         ELSE get_region_sum(regs, region.id, cell_values)
                > get_region_sum(regs, region.linked_region_id, cell_values)

check_constraint(regs, region, cell_values, filled, partial_ok) ==
    LET complete == is_region_complete(regs, region.id, filled) IN
    CASE region.type = "SUM" ->
            check_SUM(region, get_region_sum(regs, region.id, cell_values),
                      complete, partial_ok)
      [] region.type = "EQUAL" ->
            check_EQUAL(get_region_values(regs, region.id, cell_values))
      [] region.type \in {"LESS", "GREATER"} ->
            check_ORDER(regs, region, cell_values, filled, complete, partial_ok)
      [] OTHER -> TRUE

\* ------------------------------------------------------------------------
\* Search helpers
\* ------------------------------------------------------------------------
INT_MAX == 2147483647

MinCell(S) == CHOOSE c \in S : \A d \in S \ {c} : CellLess(c, d)

\* The cells of a set<Cell> in iteration order.
RECURSIVE SortCells(_)
SortCells(S) ==
    IF S = {} THEN <<>>
    ELSE <<MinCell(S)>> \o SortCells(S \ {MinCell(S)})

get_adjacent(regs, cell) ==
    SelectSeq(<< <<cell[1] - 1, cell[2]>>, <<cell[1] + 1, cell[2]>>,
                 <<cell[1], cell[2] - 1>>, <<cell[1], cell[2] + 1>> >>,
              LAMBDA n : n \in all_cells(regs))

UnfilledIn(regs, rid, filled) ==
    Cardinality({i \in 1..Len(region_by_id(regs, rid).cells) :
                    region_by_id(regs, rid).cells[i] \notin filled})

\* The loop of choose_cell over all_cells, from position i on.
RECURSIVE ChooseScan(_, _, _, _, _, _)
\* The scan keeping the last cell among those of smallest count.
ChooseScan_last(regs, filled, cells, i, best, min_unfilled) ==
    IF i > Len(cells) THEN best
    ELSE IF cells[i] \in filled
         THEN ChooseScan(regs, filled, cells, i + 1, best, min_unfilled)
    ELSE LET unfilled == UnfilledIn(regs, cell_to_region(regs, cells[i]), filled) IN
         IF unfilled <= min_unfilled
         THEN ChooseScan(regs, filled, cells, i + 1, cells[i], unfilled)
         ELSE ChooseScan(regs, filled, cells, i + 1, best, min_unfilled)

ChooseScan(regs, filled, cells, i, best, min_unfilled) ==
    IF i > Len(cells) THEN best
    ELSE IF cells[i] \in filled
         THEN ChooseScan(regs, filled, cells, i + 1, best, min_unfilled)
    ELSE LET unfilled == UnfilledIn(regs, cell_to_region(regs, cells[i]), filled) IN
         IF unfilled < min_unfilled
         THEN ChooseScan(regs, filled, cells, i + 1, cells[i], unfilled)
         ELSE ChooseScan(regs, filled, cells, i + 1, best, min_unfilled)

choose_cell(regs, state) ==
    ChooseScan(regs, state.filled_cells, SortCells(all_cells(regs)), 1,
               <<-1, -1>>, INT_MAX)

\* The orientations vector of one domino: (pip_cell, pip_adj) pairs.
Orientations(domino) ==
    IF domino[1] # domino[2]
    THEN << <<domino[1], domino[2]>>, <<domino[2], domino[1]>> >>
    ELSE << <<domino[1], domino[2]>> >>

\* new_values: state.cell_values with cell and then adj assigned.
NewValues(cell_values, cell, adj, pip_cell, pip_adj) ==
    [c \in (DOMAIN cell_values) \cup {cell, adj} |->
        IF c = adj THEN pip_adj
        ELSE IF c = cell THEN pip_cell
        ELSE cell_values[c]]

Min2(a, b) == IF a < b THEN a ELSE b

\* PlacedDomino{domino, pr, pc, horiz}
Placement(domino, cell, adj) ==
    [domino |-> domino,
     row |-> Min2(cell[1], adj[1]),
     col |-> Min2(cell[2], adj[2]),
     horizontal |-> (cell[1] = adj[1])]

cell1(p) == <<p.row, p.col>>
cell2(p) == IF p.horizontal THEN <<p.row, p.col + 1>> ELSE <<p.row + 1, p.col>>

\* The partial check of the region of cell only.
AffectedValid_cell_only(regs, cell, adj, new_values, new_filled) ==
    \A rid \in {cell_to_region(regs, cell)} :
        check_constraint(regs, region_by_id(regs, rid), new_values, new_filled, TRUE)

\* The partial check of the regions affected by a placement.
AffectedValid(regs, cell, adj, new_values, new_filled) ==
    \A rid \in {cell_to_region(regs, cell), cell_to_region(regs, adj)} :
        check_constraint(regs, region_by_id(regs, rid), new_values, new_filled, TRUE)

\* The final verification starting at the second region.
AllStrict_skip_first(regs, state) ==
    \A i \in 2..Len(regs) :
        check_constraint(regs, regs[i], state.cell_values, state.filled_cells, FALSE)

\* The final verification of a full state.
AllStrict(regs, state) ==
    \A i \in 1..Len(regs) :
        check_constraint(regs, regs[i], state.cell_values, state.filled_cells, FALSE)

\* seen_signatures.insert(cell_values).second with the signature set
\* ignored: every verified full state is taken as new.
IsNewSignature_always(seen, cell_values) == TRUE

\* seen_signatures.insert(cell_values).second
IsNewSignature(seen, cell_values) == cell_values \notin seen

InitialState ==
    [placed |-> <<>>, used_dominoes |-> {}, filled_cells |-> {}, cell_values |-> <<>>]

\* new_state without the insert into used_dominoes.
NewState_no_used(state, domino, cell, adj, pip_cell, pip_adj) ==
    [placed |-> Append(state.placed, Placement(domino, cell, adj)),
     used_dominoes |-> state.used_dominoes,
     filled_cells |-> state.filled_cells \cup {cell, adj},
     cell_values |-> NewValues(state.cell_values, cell, adj, pip_cell, pip_adj)]

\* new_state: the copies of the parent's fields with the placement added.
NewState(state, domino, cell, adj, pip_cell, pip_adj) ==
    [placed |-> Append(state.placed, Placement(domino, cell, adj)),
     used_dominoes |-> state.used_dominoes \cup {domino},
     filled_cells |-> state.filled_cells \cup {cell, adj},
     cell_values |-> NewValues(state.cell_values, cell, adj, pip_cell, pip_adj)]

\* An activation record of backtrack: its argument and its loop position.
Frame(state) ==
    [state |-> state, cell |-> <<-1, -1>>, di |-> 1, ai |-> 1, oi |-> 1, at |-> "enter"]

Top == stack[Len(stack)]
Pop == SubSeq(stack, 1, Len(stack) - 1)
SetTop(f) == [stack EXCEPT ![Len(stack)] = f]

\* The caller's state overwritten with the state built for the branch.
CallerFrame_in_place(f, new_state) == [f EXCEPT !.at = "ret", !.state = new_state]

\* The caller's activation record during backtrack(new_state): new_state
\* is a separate object, the caller's state is left as it was.
CallerFrame(f, new_state) == [f EXCEPT !.at = "ret"]

\* ------------------------------------------------------------------------
\* solve and test_puzzle as functions of their arguments
\* ------------------------------------------------------------------------
\* The same search as the actions below carry out step by step, run to
\* completion: backtrack returns the Solver's (solutions, seen_signatures)
\* after the call, BacktrackLoop is the rest of its nested loops from
\* position (di, ai, oi) on.
RECURSIVE backtrack(_, _, _, _, _)
RECURSIVE BacktrackLoop(_, _, _, _, _, _, _, _, _)
backtrack(doms, regs, cap, state, acc) ==
    IF Len(acc.solutions) >= cap THEN acc
    ELSE IF Cardinality(state.filled_cells) = Cardinality(all_cells(regs))
    THEN IF AllStrict(regs, state) /\ IsNewSignature(acc.seen, state.cell_values)
         THEN [solutions |-> Append(acc.solutions, state),
               seen |-> acc.seen \cup {state.cell_values}]
         ELSE acc
    ELSE LET cell == choose_cell(regs, state) IN
         IF cell[1] < 0 THEN acc
         ELSE BacktrackLoop(doms, regs, cap, state, cell, 1, 1, 1, acc)

BacktrackLoop(doms, regs, cap, state, cell, di, ai, oi, acc) ==
    LET adjs == get_adjacent(regs, cell) IN
    IF di > Len(doms) THEN acc
    ELSE IF doms[di] \in state.used_dominoes \/ ai > Len(adjs)
    THEN BacktrackLoop(doms, regs, cap, state, cell, di + 1, 1, 1, acc)
    ELSE IF adjs[ai] \in state.filled_cells \/ oi > Len(Orientations(doms[di]))
    THEN BacktrackLoop(doms, regs, cap, state, cell, di, ai + 1, 1, acc)
    ELSE LET o == Orientations(doms[di])[oi]
             new_state == NewState(state, doms[di], cell, adjs[ai], o[1], o[2])
         IN
         IF ~AffectedValid(regs, cell, adjs[ai], new_state.cell_values,
                           new_state.filled_cells)
         THEN BacktrackLoop(doms, regs, cap, state, cell, di, ai, oi + 1, acc)
         ELSE LET after == backtrack(doms, regs, cap, new_state, acc) IN
              IF Len(after.solutions) >= cap THEN after
              ELSE BacktrackLoop(doms, regs, cap, state, cell, di, ai, oi + 1, after)

\* The output condition with "at least one" in place of "exactly one".
WritesOutput_atleast(cnt) == cnt >= 1

\* test_puzzle: count == 1 (solution_out is non-null at every call site).
WritesOutput(cnt) == cnt = 1

\* solve(): the solutions vector after the call (its size is the result).
solve(doms, regs, cap) ==
    backtrack(doms, regs, cap, InitialState, [solutions |-> <<>>, seen |-> {}]).solutions

\* test_puzzle: the count, and the placement list it assigns to
\* *solution_out when the count is 1 (the caller's empty vector otherwise).
test_puzzle(doms, regs) ==
    LET sols == solve(doms, regs, TestPuzzleCap) IN
    [count |-> Len(sols),
     solution |-> IF WritesOutput(Len(sols)) THEN sols[1].placed ELSE <<>>]

\* ------------------------------------------------------------------------
\* Explored configurations
\* ------------------------------------------------------------------------
\* The tile pool as main builds it: [i|j] for i <= j, in (i, j) order.
Pool == SortCells({d \in (0..MaxPip) \X (0..MaxPip) : d[1] <= d[2]})

\* Tile lists without repeats, in pool order: every pair, and the triples
\* of consecutive pool tiles (one tile more than the grid needs).
DominoLists ==
    {<<Pool[p[1]], Pool[p[2]]>> :
        p \in {q \in (1..Len(Pool)) \X (1..Len(Pool)) : q[1] < q[2]}}
    \cup {<<Pool[i], Pool[i + 1], Pool[i + 2]>> : i \in 1..(Len(Pool) - 2)}

MkRegion(id, cells, kind) ==
    [id |-> id, cells |-> cells, type |-> kind.type,
     target_value |-> kind.target_value, linked_region_id |-> kind.linked_region_id]

SumKinds ==
    {[type |-> "SUM", target_value |-> t, linked_region_id |-> -1] : t \in 0..MaxTarget}
EqualKind == [type |-> "EQUAL", target_value |-> -1, linked_region_id |-> -1]
OrderKinds(other) ==
    {[type |-> ty, target_value |-> -1, linked_region_id |-> other] :
        ty \in {"LESS", "GREATER"}}

Whole2x2 == << <<0,0>>, <<0,1>>, <<1,0>>, <<1,1>> >>
Row0 == << <<0,0>>, <<0,1>> >>
Row1 == << <<1,0>>, <<1,1>> >>
Corner3 == << <<0,0>>, <<0,1>>, <<1,0>> >>
Single == << <<1,1>> >>

RegionLists ==
    {<< MkRegion(0, Whole2x2, k) >> : k \in SumKinds \cup {EqualKind}}
    \cup {<< MkRegion(0, Row0, k0), MkRegion(1, Row1, k1) >> :
            k0 \in SumKinds \cup {EqualKind} \cup OrderKinds(1),
            k1 \in SumKinds \cup {EqualKind}}
    \cup {<< MkRegion(0, Corner3, k0), MkRegion(1, Single, k1) >> :
            k0 \in {EqualKind} \cup OrderKinds(1), k1 \in SumKinds}

\* Scenario A: the Easy1 layout with target 12 on the last region.
ScenarioADominoes == << <<0,1>>, <<2,3>>, <<4,5>>, <<6,6>> >>
ScenarioARegions ==
    << [id |-> 0, cells |-> << <<0,0>>, <<0,1>> >>, type |-> "LESS",
        target_value |-> -1, linked_region_id |-> 1],
       [id |-> 1, cells |-> << <<0,2>>, <<0,3>> >>, type |-> "LESS",
        target_value |-> -1, linked_region_id |-> 2],
       [id |-> 2, cells |-> << <<1,0>>, <<1,1>> >>, type |-> "LESS",
        target_value |-> -1, linked_region_id |-> 3],
       [id |-> 3, cells |-> << <<1,2>>, <<1,3>> >>, type |-> "SUM",
        target_value |-> 12, linked_region_id |-> -1] >>

NoCall == [idx |-> 0]

\* ------------------------------------------------------------------------
\* Initial states
\* ------------------------------------------------------------------------
Tiers == {"Easy1", "Easy2"}

\* An empty std::optional<PuzzleResult>.
NoResult == [present |-> FALSE]

\* The globals before main starts, and main not running.
GlobalsInit ==
    /\ found = [t \in Tiers |-> FALSE]
    /\ result = [t \in Tiers |-> NoResult]
    /\ result_mutex = 0
    /\ total_attempts = 0

\* The Hard block of main not reached.
HardIdle ==
    /\ do_hard = FALSE
    /\ d9_remainder = <<>>
    /\ unused_d6 = <<>>
    /\ hard_pool = <<>>

DriverIdle ==
    /\ GlobalsInit
    /\ main_pc = "none"
    /\ do_easy1 = FALSE
    /\ do_easy2 = FALSE
    /\ exclude_list = <<>>
    /\ all_d6 = <<>>
    /\ easy2_pool = <<>>
    /\ threads = <<>>
    /\ joined = 0
    /\ invoked = <<>>
    /\ running = [t \in Tiers |-> 0]
    /\ calls = 0
    /\ HardIdle

\* A Solver just constructed, either directly with some cap or by
\* test_puzzle with cap 3.
InitSolver(r, c, doms, regs, cap, test) ==
    /\ rows = r
    /\ cols = c
    /\ DriverIdle
    /\ dominoes = doms
    /\ regions = regs
    /\ max_solutions = cap
    /\ via_test = test
    /\ solutions = <<>>
    /\ seen_signatures = {}
    /\ stack = <<>>
    /\ pc = "idle"
    /\ count = -1
    /\ solution_out = <<>>
    /\ out_written = FALSE
    /\ runs = 0
    /\ first_run = [count |-> -1, placed |-> <<>>]
    /\ cc_in = NoCall
    /\ cc_out = FALSE

Init ==
    \/ \E doms \in DominoLists, regs \in RegionLists, cap \in 0..MaxCap :
          InitSolver(2, 2, doms, regs, cap, FALSE)
    \/ \E doms \in DominoLists, regs \in RegionLists :
          InitSolver(2, 2, doms, regs, TestPuzzleCap, TRUE)
    \/ InitSolver(2, 4, ScenarioADominoes, ScenarioARegions, TestPuzzleCap, TRUE)

\* ------------------------------------------------------------------------
\* Solver::solve and Solver::backtrack
\* ------------------------------------------------------------------------
\* seen_signatures left as the previous solve() filled it.
ClearedSignatures_kept(seen) == seen

\* seen_signatures.clear()
ClearedSignatures(seen) == {}

\* solve(): clear the results and call backtrack on the empty state.
\* A Solver object may be solved again; test_puzzle's Solver is local and
\* solved once.
SolveBegin ==
    /\ \/ pc = "idle"
       \/ pc = "done" /\ ~via_test /\ runs < MaxRuns
    /\ solutions' = <<>>
    /\ seen_signatures' = ClearedSignatures(seen_signatures)
    /\ stack' = <<Frame(InitialState)>>
    /\ pc' = "solving"
    /\ UNCHANGED driverVars
    /\ UNCHANGED <<rows, cols, dominoes, regions, max_solutions, count, via_test,
                   solution_out, out_written, runs, first_run, cc_in, cc_out>>

\* Entry of backtrack(state): cap test, acceptance of a full state,
\* choice of the next cell.
BacktrackEnter ==
    /\ pc = "solving" /\ stack # <<>> /\ Top.at = "enter"
    /\ LET state == Top.state IN
       IF Len(solutions) >= max_solutions
       THEN /\ stack' = Pop
            /\ UNCHANGED <<solutions, seen_signatures>>
       ELSE IF Cardinality(state.filled_cells) = Cardinality(all_cells(regions))
       THEN /\ stack' = Pop
            /\ IF AllStrict(regions, state)
                  /\ IsNewSignature(seen_signatures, state.cell_values)
               THEN /\ seen_signatures' = seen_signatures \cup {state.cell_values}
                    /\ solutions' = Append(solutions, state)
               ELSE UNCHANGED <<solutions, seen_signatures>>
       ELSE LET cell == choose_cell(regions, state) IN
            /\ IF cell[1] < 0
               THEN stack' = Pop
               ELSE stack' = SetTop([Top EXCEPT !.cell = cell, !.at = "loop"])
            /\ UNCHANGED <<solutions, seen_signatures>>
    /\ UNCHANGED driverVars
    /\ UNCHANGED <<rows, cols, dominoes, regions, max_solutions, pc, count, via_test,
                   solution_out, out_written, runs, first_run, cc_in, cc_out>>

\* One iteration of the nested loops of backtrack over (domino, adj,
\* orientation); a placement that passes the partial check recurses.
BacktrackIter ==
    /\ pc = "solving" /\ stack # <<>> /\ Top.at = "loop"
    /\ LET f == Top
           state == f.state
           adjs == get_adjacent(regions, f.cell)
       IN
       IF f.di > Len(dominoes)
       THEN stack' = Pop
       ELSE IF dominoes[f.di] \in state.used_dominoes \/ f.ai > Len(adjs)
       THEN stack' = SetTop([f EXCEPT !.di = f.di + 1, !.ai = 1, !.oi = 1])
       ELSE IF adjs[f.ai] \in state.filled_cells
               \/ f.oi > Len(Orientations(dominoes[f.di]))
       THEN stack' = SetTop([f EXCEPT !.ai = f.ai + 1, !.oi = 1])
       ELSE LET domino == dominoes[f.di]
                adj == adjs[f.ai]
                o == Orientations(domino)[f.oi]
                new_state == NewState(state, domino, f.cell, adj, o[1], o[2])
            IN
            IF ~AffectedValid(regions, f.cell, adj, new_state.cell_values,
                              new_state.filled_cells)
            THEN stack' = SetTop([f EXCEPT !.oi = f.oi + 1])
            ELSE stack' = Append(SetTop(CallerFrame(f, new_state)), Frame(new_state))
    /\ UNCHANGED driverVars
    /\ UNCHANGED <<rows, cols, dominoes, regions, max_solutions, solutions, seen_signatures,
                   pc, count, via_test, solution_out, out_written, runs,
                   first_run, cc_in, cc_out>>

\* After the recursive call returns: stop when the cap is reached, else
\* continue with the next orientation.
BacktrackReturn ==
    /\ pc = "solving" /\ stack # <<>> /\ Top.at = "ret"
    /\ IF Len(solutions) >= max_solutions
       THEN stack' = Pop
       ELSE stack' = SetTop([Top EXCEPT !.oi = Top.oi + 1, !.at = "loop"])
    /\ UNCHANGED driverVars
    /\ UNCHANGED <<rows, cols, dominoes, regions, max_solutions, solutions, seen_signatures,
                   pc, count, via_test, solution_out, out_written, runs,
                   first_run, cc_in, cc_out>>

\* solve() returns solutions.size(); test_puzzle then copies the placement
\* list of the only solution to *solution_out when the count is 1.
SolveEnd ==
    /\ pc = "solving" /\ stack = <<>>
    /\ pc' = "done"
    /\ count' = Len(solutions)
    /\ runs' = runs + 1
    /\ first_run' = IF runs = 0
                    THEN [count |-> Len(solutions),
                          placed |-> [i \in 1..Len(solutions) |-> solutions[i].placed]]
                    ELSE first_run
    /\ IF via_test /\ WritesOutput(Len(solutions))
       THEN /\ solution_out' = solutions[1].placed
            /\ out_written' = TRUE
       ELSE UNCHANGED <<solution_out, out_written>>
    /\ UNCHANGED driverVars
    /\ UNCHANGED <<rows, cols, dominoes, regions, max_solutions, solutions, seen_signatures,
                   stack, via_test, cc_in, cc_out>>

Next ==
    \/ SolveBegin
    \/ BacktrackEnter
    \/ BacktrackIter
    \/ BacktrackReturn
    \/ SolveEnd

Spec == Init /\ [][Next]_vars

\* ------------------------------------------------------------------------
\* Direct calls of check_constraint on arbitrary partial assignments
\* ------------------------------------------------------------------------
\* Partial cell -> value maps over the cells of a region list (the filled
\* set is the key set of the map, as in every SolverState).
PartialMaps(regs) ==
    UNION {[F -> 0..MaxPip] : F \in SUBSET all_cells(regs)}

\* Region lists for direct calls: the explored ones, and the rows layout
\* with an ordered comparison on the second region.
CCRegionLists ==
    RegionLists
    \cup {<< MkRegion(0, Row0, k0), MkRegion(1, Row1, k1) >> :
            k0 \in {EqualKind}, k1 \in OrderKinds(0)}

InitCC ==
    /\ rows = 2
    /\ cols = 2
    /\ DriverIdle
    /\ dominoes = <<>>
    /\ regions = <<>>
    /\ max_solutions = 0
    /\ via_test = FALSE
    /\ solutions = <<>>
    /\ seen_signatures = {}
    /\ stack = <<>>
    /\ pc = "cc"
    /\ count = -1
    /\ solution_out = <<>>
    /\ out_written = FALSE
    /\ runs = 0
    /\ first_run = [count |-> -1, placed |-> <<>>]
    /\ cc_out = FALSE
    /\ \E regs \in CCRegionLists :
       \E idx \in 1..Len(regs), cv \in PartialMaps(regs), partial_ok \in BOOLEAN :
          cc_in = [idx |-> idx, regions |-> regs, cell_values |-> cv,
                   filled |-> DOMAIN cv, partial_ok |-> partial_ok]

CheckConstraintCall ==
    /\ pc = "cc"
    /\ cc_out' = check_constraint(cc_in.regions, cc_in.regions[cc_in.idx],
                                  cc_in.cell_values, cc_in.filled, cc_in.partial_ok)
    /\ pc' = "cc_done"
    /\ UNCHANGED driverVars
    /\ UNCHANGED <<rows, cols, dominoes, regions, max_solutions, solutions, seen_signatures,
                   stack, count, via_test, solution_out, out_written, runs,
                   first_run, cc_in>>

NextCC == CheckConstraintCall

SpecCC == InitCC /\ [][NextCC]_vars

\* ------------------------------------------------------------------------
\* Candidate enumeration and tier templates
\* ------------------------------------------------------------------------
\* combinations(vec, n, start, current, result): CombLoop is its for loop
\* from index i on (indices are 1-based here).
RECURSIVE combinations(_, _, _, _, _)
RECURSIVE CombLoop(_, _, _, _, _)
combinations(vec, n, start, current, res) ==
    IF Len(current) = n THEN Append(res, current)
    ELSE CombLoop(vec, n, start, current, res)

\* The recursive call starting at i again, so that an element may repeat.
CombLoop_repeat(vec, n, i, current, res) ==
    IF i > Len(vec) THEN res
    ELSE CombLoop(vec, n, i + 1, current,
                  combinations(vec, n, i, Append(current, vec[i]), res))

CombLoop(vec, n, i, current, res) ==
    IF i > Len(vec) THEN res
    ELSE CombLoop(vec, n, i + 1, current,
                  combinations(vec, n, i + 1, Append(current, vec[i]), res))

get_combinations(vec, n) == combinations(vec, n, 1, <<>>, <<>>)

\* exclude_dominoes dropping a tile only when it equals the first
\* excluded tile.
exclude_dominoes_first(pool, exclude) ==
    SelectSeq(pool, LAMBDA d : Len(exclude) = 0 \/ d # exclude[1])

exclude_dominoes(pool, exclude) ==
    SelectSeq(pool, LAMBDA d : \A k \in 1..Len(exclude) : d # exclude[k])

\* total: the pips of a tile list.
RECURSIVE TotalPips(_, _)
TotalPips(doms, i) ==
    IF i > Len(doms) THEN 0 ELSE pips(doms[i]) + TotalPips(doms, i + 1)

\* Largest target3 the Easy1 sweep tries (12 in the source, for a 2x4
\* grid of double-six tiles; here for a 2x2 grid).
MaxTarget3 == 4

LowerLeft == << <<1,0>> >>

\* The Easy1 template on a 2x2 grid: an inequality chain ending in a SUM.
Easy1Regions(target3) ==
    << [id |-> 0, cells |-> Row0, type |-> "LESS",
        target_value |-> -1, linked_region_id |-> 1],
       [id |-> 1, cells |-> Row1, type |-> "SUM",
        target_value |-> target3, linked_region_id |-> -1] >>

\* The Easy2 template on a 2x2 grid: three SUM regions whose targets
\* partition the total.
Easy2Regions(t0, t1, t2) ==
    << [id |-> 0, cells |-> Row0, type |-> "SUM",
        target_value |-> t0, linked_region_id |-> -1],
       [id |-> 1, cells |-> LowerLeft, type |-> "SUM",
        target_value |-> t1, linked_region_id |-> -1],
       [id |-> 2, cells |-> Single, type |-> "SUM",
        target_value |-> t2, linked_region_id |-> -1] >>

\* The Hard template on a 2x2 grid: an inequality chain ending in a SUM.
HardRegions(target3) ==
    << [id |-> 0, cells |-> Row0, type |-> "LESS",
        target_value |-> -1, linked_region_id |-> 1],
       [id |-> 1, cells |-> Row1, type |-> "SUM",
        target_value |-> target3, linked_region_id |-> -1] >>

\* The parameter sweep of a tier, as the loop variables <<target3>> or
\* <<t0, t1>>: first value, loop condition, increment.
FirstParam(tier) == IF tier = "Easy2" THEN <<0, 0>> ELSE <<1>>

ParamInRange(tier, p, total) ==
    IF tier = "Easy1" THEN p[1] <= MaxTarget3
    ELSE IF tier = "Hard" THEN p[1] < total
    ELSE p[1] <= total

\* The sweep advancing by two.
NextParam_skip(tier, p, total) ==
    IF tier \in {"Easy1", "Hard"} THEN <<p[1] + 2>>
    ELSE IF p[2] + 1 <= total - p[1] THEN <<p[1], p[2] + 1>>
    ELSE <<p[1] + 1, 0>>

NextParam(tier, p, total) ==
    IF tier \in {"Easy1", "Hard"} THEN <<p[1] + 1>>
    ELSE IF p[2] + 1 <= total - p[1] THEN <<p[1], p[2] + 1>>
    ELSE <<p[1] + 1, 0>>

TierRegions(tier, p, total) ==
    IF tier = "Easy1" THEN Easy1Regions(p[1])
    ELSE IF tier = "Hard" THEN HardRegions(p[1])
    ELSE Easy2Regions(p[1], p[2], total - p[1] - p[2])

\* The parameters a whole sweep goes through: target3 = 1..MaxTarget3, or
\* every t0 in 0..total with every t1 in 0..total - t0.
ParamSpace(tier, total) ==
    IF tier = "Easy1" THEN {<<t3>> : t3 \in 1..MaxTarget3}
    ELSE IF tier = "Hard" THEN {<<t3>> : t3 \in 1..(total - 1)}
    ELSE UNION {{<<t0, t1>> : t1 \in 0..(total - t0)} : t0 \in 0..total}

\* The tiles the explored pools are made of, in pool order.
TierTiles == << <<0,0>>, <<0,1>>, <<0,2>>, <<1,1>>, <<1,2>>, <<2,2>> >>

\* Explored pools (in place of the 28 double-six tiles): one with
\* candidates of a unique Easy1 solution, one without, and a small one.
PoolWinners == << <<0,0>>, <<1,1>>, <<1,2>>, <<2,2>> >>
PoolNone == << <<0,1>>, <<0,2>>, <<1,2>> >>
PoolSmall == << <<0,0>>, <<0,1>> >>

TierPools == {PoolWinners, PoolNone, PoolSmall}

\* test_puzzle on every candidate and parameter the explored tiers can
\* reach, evaluated once.
TestPuzzleTable ==
    [doms \in Range(get_combinations(TierTiles, 2)) |->
        [regs \in {TierRegions(tier, p, TotalPips(doms, 1)) :
                     tier \in {"Easy1"}, p \in ParamSpace("Easy1", TotalPips(doms, 1))}
                  \cup
                  {TierRegions(tier, p, TotalPips(doms, 1)) :
                     tier \in {"Hard"}, p \in ParamSpace("Hard", TotalPips(doms, 1))}
                  \cup
                  {TierRegions(tier, p, TotalPips(doms, 1)) :
                     tier \in {"Easy2"}, p \in ParamSpace("Easy2", TotalPips(doms, 1))} |->
            test_puzzle(doms, regs)]]

\* ------------------------------------------------------------------------
\* main and the worker threads of a tier
\* ------------------------------------------------------------------------
\* Number of threads main starts per tier, and the stride of the
\* candidate loop of each thread.
NumThreads == 4
Stride == 4

TierPool(tier) ==
    IF tier = "Easy1" THEN all_d6
    ELSE IF tier = "Hard" THEN d9_remainder
    ELSE easy2_pool

\* combos of a worker: the tile pairs of its pool (a 2x2 grid takes two
\* tiles, where the 2x4 grid of the source takes four).
Combos(tier) == get_combinations(TierPool(tier), 2)

\* A thread just started on search_easy_2x4_sums / search_easy_3cell_regions.
\* i is the 0-based candidate index, p the sweep variables; polls counts
\* the reads of the found flag since the last test_puzzle call and
\* after_found the test_puzzle calls begun while the flag was set.
NewThread(tier, thread_id) ==
    [tier |-> tier, thread_id |-> thread_id, at |-> "outer", i |-> thread_id,
     p |-> FirstParam(tier), count |-> -1, solution |-> <<>>,
     polls |-> 0, after_found |-> 0]

Candidate(th) == Combos(th.tier)[th.i + 1]
Total(th) == TotalPips(Candidate(th), 1)

SetThread(k, th) == [threads EXCEPT ![k] = th]

Returned(th) == [th EXCEPT !.at = "returned"]

\* for (size_t i = thread_id; i < combos.size(); i += 4) with the first
\* read of the found flag.
WorkerOuter(k) ==
    /\ threads[k].at = "outer"
    /\ LET th == threads[k] IN
       IF th.i >= Len(Combos(th.tier))
       THEN /\ threads' = SetThread(k, Returned(th))
            /\ running' = [running EXCEPT ![th.tier] = @ - 1]
       ELSE IF found[th.tier]
       THEN /\ threads' = SetThread(k, Returned([th EXCEPT !.polls = @ + 1]))
            /\ running' = [running EXCEPT ![th.tier] = @ - 1]
       ELSE /\ threads' = SetThread(k, [th EXCEPT !.at = "inner",
                                                 !.p = FirstParam(th.tier),
                                                 !.polls = @ + 1])
            /\ UNCHANGED running
    /\ UNCHANGED <<main_pc, do_easy1, do_easy2, exclude_list, all_d6, easy2_pool,
                   joined, found, result, result_mutex, total_attempts, invoked, calls>>
    /\ UNCHANGED solverVars
    /\ UNCHANGED hardVars

\* The inner poll reading nothing.
InnerPoll_never(f) == FALSE

\* if (found.load()) return; inside the parameter sweep.
InnerPoll(f) == f

\* The next candidate index taken one further.
NextCandidate_one(i) == i + 1

\* i += 4
NextCandidate(i) == i + Stride

\* The loop condition of the parameter sweep with the second read of
\* the found flag.
WorkerInner(k) ==
    /\ threads[k].at = "inner"
    /\ LET th == threads[k] IN
       IF ~ParamInRange(th.tier, th.p, Total(th))
       THEN /\ threads' = SetThread(k, [th EXCEPT !.at = "outer",
                                                 !.i = NextCandidate(th.i)])
            /\ UNCHANGED running
       ELSE IF InnerPoll(found[th.tier])
       THEN /\ threads' = SetThread(k, Returned([th EXCEPT !.polls = @ + 1]))
            /\ running' = [running EXCEPT ![th.tier] = @ - 1]
       ELSE /\ threads' = SetThread(k, [th EXCEPT !.at = "attempt", !.polls = @ + 1])
            /\ UNCHANGED running
    /\ UNCHANGED <<main_pc, do_easy1, do_easy2, exclude_list, all_d6, easy2_pool,
                   joined, found, result, result_mutex, total_attempts, invoked, calls>>
    /\ UNCHANGED solverVars
    /\ UNCHANGED hardVars

\* The counter bumped once per candidate only.
NextAttempts_per_candidate(n, th) == IF th.p = FirstParam(th.tier) THEN n + 1 ELSE n

\* total_attempts++ (one atomic read-modify-write)
NextAttempts(n, th) == n + 1

\* The winning test with "at least one solution".
IsUnique_atleast(cnt) == cnt >= 1

\* if (count == 1)
IsUnique(cnt) == cnt = 1

Bump(bag, key) ==
    IF key \in DOMAIN bag THEN [bag EXCEPT ![key] = @ + 1] ELSE bag @@ (key :> 1)

\* total_attempts++, the regions of this step, test_puzzle, and the test
\* of its count.
WorkerAttempt(k) ==
    /\ threads[k].at = "attempt"
    /\ LET th == threads[k]
           out == TestPuzzleTable[Candidate(th)][TierRegions(th.tier, th.p, Total(th))]
           th2 == [th EXCEPT !.count = out.count, !.solution = out.solution,
                             !.polls = 0,
                             !.after_found = IF found[th.tier] THEN @ + 1 ELSE @]
       IN
       /\ total_attempts' = NextAttempts(total_attempts, th)
       /\ invoked' = Bump(invoked, <<th.tier, th.thread_id, th.i, th.p>>)
       /\ calls' = calls + 1
       /\ IF IsUnique(out.count)
          THEN threads' = SetThread(k, [th2 EXCEPT !.at = "lock"])
          ELSE threads' = SetThread(k, [th2 EXCEPT !.at = "inner",
                                                   !.p = NextParam(th.tier, th.p, Total(th))])
    /\ UNCHANGED <<main_pc, do_easy1, do_easy2, exclude_list, all_d6, easy2_pool,
                   joined, found, result, result_mutex, running>>
    /\ UNCHANGED solverVars
    /\ UNCHANGED hardVars

\* The lock taken by nobody.
Acquired_none(k) == 0

\* result_mutex once thread k has locked it.
Acquired(k) == k

\* lock_guard<mutex> lock(result_mutex)
WorkerLock(k) ==
    /\ threads[k].at = "lock"
    /\ result_mutex = 0
    /\ result_mutex' = Acquired(k)
    /\ threads' = SetThread(k, [threads[k] EXCEPT !.at = "critical"])
    /\ UNCHANGED <<main_pc, do_easy1, do_easy2, exclude_list, all_d6, easy2_pool,
                   joined, found, result, total_attempts, invoked, calls, running>>
    /\ UNCHANGED solverVars
    /\ UNCHANGED hardVars

\* The claim test taken as passed whatever the flag.
ClaimsResult_always(f) == TRUE

\* if (!found.load())
ClaimsResult(f) == ~f

\* Under the lock: if (!found) found = true, else go on to return.
WorkerCritical(k) ==
    /\ threads[k].at = "critical"
    /\ LET th == threads[k] IN
       IF ClaimsResult(found[th.tier])
       THEN /\ found' = [found EXCEPT ![th.tier] = TRUE]
            /\ threads' = SetThread(k, [th EXCEPT !.at = "store"])
       ELSE /\ threads' = SetThread(k, [th EXCEPT !.at = "unlock"])
            /\ UNCHANGED found
    /\ UNCHANGED <<main_pc, do_easy1, do_easy2, exclude_list, all_d6, easy2_pool,
                   joined, result, result_mutex, total_attempts, invoked, calls, running>>
    /\ UNCHANGED solverVars
    /\ UNCHANGED hardVars

\* PuzzleResult{dominoes, regions, rows, cols, name, solution}
MakeResult(th) ==
    [present |-> TRUE, dominoes |-> Candidate(th),
     regions |-> TierRegions(th.tier, th.p, Total(th)),
     rows |-> 2, cols |-> 2, name |-> th.tier, solution |-> th.solution]

\* easyN_result = PuzzleResult{...}
WorkerStore(k) ==
    /\ threads[k].at = "store"
    /\ result' = [result EXCEPT ![threads[k].tier] = MakeResult(threads[k])]
    /\ threads' = SetThread(k, [threads[k] EXCEPT !.at = "unlock"])
    /\ UNCHANGED <<main_pc, do_easy1, do_easy2, exclude_list, all_d6, easy2_pool,
                   joined, found, result_mutex, total_attempts, invoked, calls, running>>
    /\ UNCHANGED solverVars
    /\ UNCHANGED hardVars

\* The mutex still held after the return.
Released_held(m) == m

\* ~lock_guard
Released(m) == 0

\* return; leaving the scope of the lock_guard.
WorkerUnlock(k) ==
    /\ threads[k].at = "unlock"
    /\ result_mutex' = Released(result_mutex)
    /\ threads' = SetThread(k, Returned(threads[k]))
    /\ running' = [running EXCEPT ![threads[k].tier] = @ - 1]
    /\ UNCHANGED <<main_pc, do_easy1, do_easy2, exclude_list, all_d6, easy2_pool,
                   joined, found, result, total_attempts, invoked, calls>>
    /\ UNCHANGED solverVars
    /\ UNCHANGED hardVars

Worker(k) ==
    \/ WorkerOuter(k)
    \/ WorkerInner(k)
    \/ WorkerAttempt(k)
    \/ WorkerLock(k)
    \/ WorkerCritical(k)
    \/ WorkerStore(k)
    \/ WorkerUnlock(k)

\* if (do_easy1)
MainEasy1 ==
    /\ main_pc = "easy1"
    /\ main_pc' = IF do_easy1 THEN "easy1_spawn" ELSE "easy2"
    /\ UNCHANGED <<do_easy1, do_easy2, exclude_list, all_d6, easy2_pool, threads,
                   joined, found, result, result_mutex, total_attempts, invoked,
                   running, calls>>
    /\ UNCHANGED solverVars
    /\ UNCHANGED hardVars

\* easy2_pool as main computes it from all_d6, easy1_result and
\* exclude_list.
Easy2Pool(pool, easy1, excl) ==
    IF easy1.present THEN exclude_dominoes(pool, easy1.dominoes)
    ELSE IF Len(excl) # 0 THEN exclude_dominoes(pool, excl)
    ELSE pool

\* if (do_easy2) { easy2_pool = ... }
MainEasy2 ==
    /\ main_pc = "easy2"
    /\ IF do_easy2
       THEN /\ easy2_pool' = Easy2Pool(all_d6, result["Easy1"], exclude_list)
            /\ main_pc' = "easy2_spawn"
       ELSE /\ main_pc' = "end"
            /\ UNCHANGED easy2_pool
    /\ UNCHANGED <<do_easy1, do_easy2, exclude_list, all_d6, threads,
                   joined, found, result, result_mutex, total_attempts, invoked,
                   running, calls>>
    /\ UNCHANGED solverVars
    /\ UNCHANGED hardVars

SpawnTier == IF main_pc = "easy1_spawn" THEN "Easy1" ELSE "Easy2"

\* threads.emplace_back(search_..., i, ref(pool))
MainSpawn ==
    /\ main_pc \in {"easy1_spawn", "easy2_spawn"}
    /\ threads' = Append(threads, NewThread(SpawnTier, Len(threads)))
    /\ running' = [running EXCEPT ![SpawnTier] = @ + 1]
    /\ IF Len(threads) + 1 = NumThreads
       THEN /\ main_pc' = (IF main_pc = "easy1_spawn" THEN "easy1_join" ELSE "easy2_join")
            /\ joined' = 0
       ELSE UNCHANGED <<main_pc, joined>>
    /\ UNCHANGED <<do_easy1, do_easy2, exclude_list, all_d6, easy2_pool,
                   found, result, result_mutex, total_attempts, invoked, calls>>
    /\ UNCHANGED solverVars
    /\ UNCHANGED hardVars

\* join() returning although the thread still runs.
JoinReady_always(th) == TRUE

\* t.join() returns once the thread function has returned.
JoinReady(th) == th.at = "returned"

\* for (auto& t : threads) t.join(); threads.clear();
MainJoin ==
    /\ main_pc \in {"easy1_join", "easy2_join"}
    /\ JoinReady(threads[joined + 1])
    /\ IF joined + 1 = Len(threads)
       THEN /\ threads' = <<>>
            /\ invoked' = <<>>
            /\ joined' = 0
            /\ main_pc' = (IF main_pc = "easy1_join" THEN "easy2" ELSE "end")
       ELSE /\ joined' = joined + 1
            /\ UNCHANGED <<threads, main_pc, invoked>>
    /\ UNCHANGED <<do_easy1, do_easy2, exclude_list, all_d6, easy2_pool,
                   found, result, result_mutex, total_attempts, running, calls>>
    /\ UNCHANGED solverVars
    /\ UNCHANGED hardVars

\* Explored command lines: the pool, the mode flags and the --exclude
\* list.  Easy2 runs on a pool of at most two tiles, or on the small pool.
MainConfigs ==
    { [pool |-> PoolWinners, easy1 |-> TRUE, easy2 |-> TRUE,
       exclude |-> << <<1,2>>, <<0,0>> >>],
      [pool |-> PoolNone, easy1 |-> TRUE, easy2 |-> TRUE,
       exclude |-> << <<0,2>> >>],
      [pool |-> PoolNone, easy1 |-> FALSE, easy2 |-> TRUE,
       exclude |-> << <<1,2>> >>],
      [pool |-> PoolSmall, easy1 |-> TRUE, easy2 |-> TRUE, exclude |-> <<>>],
      [pool |-> PoolSmall, easy1 |-> TRUE, easy2 |-> FALSE, exclude |-> <<>>],
      [pool |-> PoolSmall, easy1 |-> FALSE, easy2 |-> TRUE, exclude |-> <<>>],
      [pool |-> PoolSmall, easy1 |-> TRUE, easy2 |-> TRUE,
       exclude |-> << <<0,1>> >>] }

SolverIdle ==
    /\ rows = 2
    /\ cols = 2
    /\ dominoes = <<>>
    /\ regions = <<>>
    /\ max_solutions = 0
    /\ via_test = FALSE
    /\ solutions = <<>>
    /\ seen_signatures = {}
    /\ stack = <<>>
    /\ pc = "main"
    /\ count = -1
    /\ solution_out = <<>>
    /\ out_written = FALSE
    /\ runs = 0
    /\ first_run = [count |-> -1, placed |-> <<>>]
    /\ cc_in = NoCall
    /\ cc_out = FALSE

\* main after argument parsing.
InitMain ==
    /\ SolverIdle
    /\ GlobalsInit
    /\ main_pc = "easy1"
    /\ \E c \in MainConfigs :
        /\ all_d6 = c.pool
        /\ do_easy1 = c.easy1
        /\ do_easy2 = c.easy2
        /\ exclude_list = c.exclude
    /\ easy2_pool = <<>>
    /\ threads = <<>>
    /\ joined = 0
    /\ invoked = <<>>
    /\ running = [t \in Tiers |-> 0]
    /\ calls = 0
    /\ HardIdle

NextMain ==
    \/ MainEasy1
    \/ MainEasy2
    \/ MainSpawn
    \/ MainJoin
    \/ \E k \in 1..Len(threads) : Worker(k)

SpecMain == InitMain /\ [][NextMain]_vars

\* ------------------------------------------------------------------------
\* Reference semantics used by the properties
\* ------------------------------------------------------------------------
RECURSIVE SetSum(_, _)
SetSum(S, m) ==
    IF S = {} THEN 0
    ELSE LET c == CHOOSE x \in S : TRUE IN m[c] + SetSum(S \ {c}, m)

Members(region) == Range(region.cells)

RegionWithId(regs, id) == CHOOSE r \in Range(regs) : r.id = id

\* A complete map m satisfies every region in the strict sense.
RefStrict(regs, m) ==
    \A r \in Range(regs) :
        CASE r.type = "SUM" -> SetSum(Members(r), m) = r.target_value
          [] r.type = "EQUAL" -> \A a \in Members(r), b \in Members(r) : m[a] = m[b]
          [] r.type = "LESS" ->
                SetSum(Members(r), m)
                  < SetSum(Members(RegionWithId(regs, r.linked_region_id)), m)
          [] r.type = "GREATER" ->
                SetSum(Members(r), m)
                  > SetSum(Members(RegionWithId(regs, r.linked_region_id)), m)

Abs(x) == IF x < 0 THEN -x ELSE x
GridAdjacent(a, b) == Abs(a[1] - b[1]) + Abs(a[2] - b[2]) = 1

Edges(cells) == {e \in SUBSET cells : \E a \in e, b \in e : e = {a, b} /\ GridAdjacent(a, b)}

\* Ways of covering the cells by disjoint adjacent pairs.
Tilings(cells) ==
    {T \in SUBSET Edges(cells) :
        /\ UNION T = cells
        /\ \A e \in T, g \in T : e # g => e \cap g = {}}

\* The map obtained by putting tile f[e] on pair e, low value on the
\* smaller cell iff o[e].
MapOf(cells, T, f, o) ==
    [c \in cells |->
        LET e == CHOOSE x \in T : c \in x IN
        IF (c = MinCell(e)) = o[e] THEN f[e][1] ELSE f[e][2]]

\* All complete cell -> value maps that arise from some tiling, some
\* assignment of distinct tiles to its pairs and some orientation, and
\* that satisfy every region strictly.
TrueMaps(doms, regs) ==
    LET cells == all_cells(regs) IN
    UNION { { MapOf(cells, T, fo[1], fo[2]) :
                fo \in {x \in [T -> Range(doms)] \X [T -> BOOLEAN] :
                          /\ \A e \in T, g \in T : e # g => x[1][e] # x[1][g]
                          /\ RefStrict(regs, MapOf(cells, T, x[1], x[2]))} } :
            T \in Tilings(cells) }

TrueCount == Cardinality(TrueMaps(dominoes, regions))

IsScenarioA == dominoes = ScenarioADominoes /\ regions = ScenarioARegions

Complete(state) == Cardinality(state.filled_cells) = Cardinality(all_cells(regions))

\* ------------------------------------------------------------------------
\* Properties
\* ------------------------------------------------------------------------
\* C1: solve never returns more than the cap, and when the true number of
\* distinct valid complete cell->value maps is at most the cap, it returns
\* exactly that number.
C1_CapCorrect ==
    pc = "done" =>
        /\ count <= max_solutions
        /\ TrueCount <= max_solutions => count = TrueCount

\* A solve that returned at least two solutions, all there are, below the cap.
C1_Witness ==
    pc = "done" /\ count >= 2 /\ count < max_solutions /\ count = TrueCount

\* C2: the accepted solutions have pairwise distinct cell->value maps; a
\* configuration with one valid map reached along several paths counts 1,
\* one with at least two valid maps counts at least 2 when the cap allows.
C2_Dedup ==
    /\ \A i \in 1..Len(solutions), j \in 1..Len(solutions) :
          i # j => solutions[i].cell_values # solutions[j].cell_values
    /\ pc = "done" /\ max_solutions >= 2 =>
          /\ TrueCount = 1 => count = 1
          /\ TrueCount >= 2 => count >= 2

\* backtrack is entered with a verified full state whose map was accepted
\* before (a second path to the same map), below the cap.
C2_Witness ==
    /\ pc = "solving" /\ stack # <<>> /\ Top.at = "enter"
    /\ Len(solutions) < max_solutions
    /\ Complete(Top.state)
    /\ RefStrict(regions, Top.state.cell_values)
    /\ Top.state.cell_values \in seen_signatures

PlacementsValid(state) ==
    /\ \A i \in 1..Len(state.placed), j \in 1..Len(state.placed) :
          i # j => /\ state.placed[i].domino # state.placed[j].domino
                   /\ {cell1(state.placed[i]), cell2(state.placed[i])}
                        \cap {cell1(state.placed[j]), cell2(state.placed[j])} = {}
    /\ \A i \in 1..Len(state.placed) :
          /\ state.placed[i].domino \in Range(dominoes)
          /\ cell1(state.placed[i]) \in all_cells(regions)
          /\ cell2(state.placed[i]) \in all_cells(regions)
          /\ GridAdjacent(cell1(state.placed[i]), cell2(state.placed[i]))

\* C3: every accepted solution fills all cells, satisfies every region
\* strictly, uses each tile at most once, and each placement covers two
\* adjacent cells no other placement covers.
C3_SolutionsValid ==
    \A i \in 1..Len(solutions) :
        /\ solutions[i].filled_cells = all_cells(regions)
        /\ DOMAIN solutions[i].cell_values = all_cells(regions)
        /\ RefStrict(regions, solutions[i].cell_values)
        /\ \A k \in 1..Len(regions) :
              check_constraint(regions, regions[k], solutions[i].cell_values,
                               solutions[i].filled_cells, FALSE)
        /\ PlacementsValid(solutions[i])

\* A solve finished with an accepted solution in a configuration whose
\* first region is a LESS/GREATER region (its comparison is decided only by
\* the final verification when the linked region is completed later).
C3_Witness ==
    /\ pc = "done" /\ count >= 1
    /\ regions[1].type \in {"LESS", "GREATER"}
    /\ solutions[1].filled_cells = all_cells(regions)

\* C4 as stated: scenario A reports exactly 1 solution.
C4_ScenarioA_One ==
    pc = "done" /\ IsScenarioA => count = 1

\* C4 (amended): scenario A with cap 3 reports exactly 3 solutions, the
\* cap: swapping the two values of a tile inside one region gives another
\* valid map.
C4_ScenarioA_Cap ==
    pc = "done" /\ IsScenarioA => count = 3 /\ max_solutions = 3

C4_Witness ==
    pc = "done" /\ IsScenarioA /\ via_test

FilledMembers(region, filled) == Members(region) \cap filled

\* C5: a SUM region that is fully filled passes iff its sum equals the
\* target, whatever partial_ok; one that is not fully filled passes iff
\* partial_ok and the partial sum is at most the target.
C5_Sum ==
    pc = "cc_done" /\ cc_in.regions[cc_in.idx].type = "SUM" =>
        LET r == cc_in.regions[cc_in.idx]
            sum == SetSum(FilledMembers(r, cc_in.filled), cc_in.cell_values)
        IN
        IF Members(r) \subseteq cc_in.filled
        THEN cc_out = (sum = r.target_value)
        ELSE cc_out = (cc_in.partial_ok /\ sum <= r.target_value)

\* A full SUM region with a sum below its target, rejected in partial mode.
C5_Witness ==
    /\ pc = "cc_done" /\ cc_in.regions[cc_in.idx].type = "SUM"
    /\ Members(cc_in.regions[cc_in.idx]) \subseteq cc_in.filled
    /\ SetSum(Members(cc_in.regions[cc_in.idx]), cc_in.cell_values)
          < cc_in.regions[cc_in.idx].target_value
    /\ cc_in.partial_ok
    /\ ~cc_out

\* C6: a LESS/GREATER region returns partial_ok while it or its linked
\* region is not fully filled, and the strict comparison of the two sums
\* once both are.
C6_Order ==
    pc = "cc_done" /\ cc_in.regions[cc_in.idx].type \in {"LESS", "GREATER"} =>
        LET r == cc_in.regions[cc_in.idx]
            l == RegionWithId(cc_in.regions, r.linked_region_id)
            mine == SetSum(FilledMembers(r, cc_in.filled), cc_in.cell_values)
            theirs == SetSum(FilledMembers(l, cc_in.filled), cc_in.cell_values)
        IN
        IF Members(r) \subseteq cc_in.filled /\ Members(l) \subseteq cc_in.filled
        THEN cc_out = (IF r.type = "LESS" THEN mine < theirs ELSE mine > theirs)
        ELSE cc_out = cc_in.partial_ok

\* Both regions full with equal sums: rejected although partial_ok.
C6_Witness ==
    /\ pc = "cc_done" /\ cc_in.regions[cc_in.idx].type \in {"LESS", "GREATER"}
    /\ cc_in.filled = all_cells(cc_in.regions)
    /\ SetSum(Members(cc_in.regions[1]), cc_in.cell_values)
          = SetSum(Members(cc_in.regions[2]), cc_in.cell_values)
    /\ cc_in.partial_ok
    /\ ~cc_out

\* C7: an EQUAL region passes iff all its filled member cells hold one
\* common value (so always with at most one filled cell), in both modes.
C7_Equal ==
    pc = "cc_done" /\ cc_in.regions[cc_in.idx].type = "EQUAL" =>
        LET F == FilledMembers(cc_in.regions[cc_in.idx], cc_in.filled) IN
        /\ cc_out = (\A a \in F, b \in F : cc_in.cell_values[a] = cc_in.cell_values[b])
        /\ Cardinality(F) <= 1 => cc_out

\* Three filled cells, the first two equal and the third different.
C7_Witness ==
    /\ pc = "cc_done" /\ cc_in.regions[cc_in.idx].type = "EQUAL"
    /\ LET r == cc_in.regions[cc_in.idx] IN
       /\ Len(r.cells) >= 3
       /\ {r.cells[1], r.cells[2], r.cells[3]} \subseteq cc_in.filled
       /\ cc_in.cell_values[r.cells[1]] = cc_in.cell_values[r.cells[2]]
       /\ cc_in.cell_values[r.cells[3]] # cc_in.cell_values[r.cells[1]]
    /\ ~cc_out

\* C8: a second solve on the same Solver returns the same count and the
\* same placement lists as the first; nothing accepted or seen before
\* influences it.
C8_Deterministic ==
    pc = "done" /\ runs >= 2 =>
        /\ count = first_run.count
        /\ count = 1 => solutions[1].placed = first_run.placed[1]
        /\ Cardinality(seen_signatures) = Len(solutions)

C8_Witness ==
    pc = "done" /\ runs = 2 /\ count = 1 /\ first_run.count = 1

CoveredCells(placed) ==
    UNION {{cell1(placed[i]), cell2(placed[i])} : i \in 1..Len(placed)}

\* C9: test_puzzle returns the solver's count under cap 3 and assigns the
\* output iff the count is 1, then to the placement list of the single
\* solution, which covers every grid cell exactly once.
C9_TestPuzzle ==
    pc = "done" /\ via_test =>
        /\ max_solutions = TestPuzzleCap
        /\ count = Len(solutions)
        /\ out_written <=> count = 1
        /\ count = 1 =>
              /\ solution_out = solutions[1].placed
              /\ CoveredCells(solution_out) = all_cells(regions)
              /\ 2 * Len(solution_out) = Cardinality(all_cells(regions))
        /\ count # 1 => solution_out = <<>>

\* test_puzzle found exactly one solution and wrote it.
C9_Witness ==
    pc = "done" /\ via_test /\ count = 1 /\ out_written /\ solution_out # <<>>

\* test_puzzle found two or more solutions and left the output alone.
C9_WitnessMany ==
    pc = "done" /\ via_test /\ count >= 2 /\ ~out_written

\* C10 as stated: in every accepted solution each placement's anchor cell
\* holds the tile's low value and its second cell the high value.
C10_PlacementGivesValues ==
    \A i \in 1..Len(solutions) :
        \A k \in 1..Len(solutions[i].placed) :
            LET p == solutions[i].placed[k] IN
            /\ solutions[i].cell_values[cell1(p)] = p.domino[1]
            /\ solutions[i].cell_values[cell2(p)] = p.domino[2]

\* The step-by-step search and the function solve agree on every
\* finished run.
SolveAgrees ==
    pc = "done" => solutions = solve(dominoes, regions, max_solutions)

\* ------------------------------------------------------------------------
\* Properties of the tier searches (specification SpecMain)
\* ------------------------------------------------------------------------

\* C11: within one tier run the tier's result record is populated at most
\* once: a populated record never changes again, the found flag never goes
\* back to false, and the record is only written by the worker that set the
\* flag; a later winner leaves both unchanged.
C11_PopulatedOnce ==
    [][\A t \in Tiers :
         /\ result[t].present => result'[t] = result[t]
         /\ found[t] => found'[t]
         /\ result'[t] # result[t] => found[t] /\ result'[t].present]_vars

\* A second worker that saw a unique solution on another candidate has
\* passed the test under the lock and is about to return, the record
\* holding the first winner's candidate.
C11_Witness ==
    \E k \in 1..Len(threads) :
        /\ threads[k].at = "unlock"
        /\ threads[k].count = 1
        /\ result[threads[k].tier].present
        /\ result[threads[k].tier].dominoes # Candidate(threads[k])

\* C12: a populated result record holds the tile list, the region list and
\* the placement list of one single test_puzzle call of the tier that
\* returned exactly one solution: some candidate of the tier's pool and
\* some parameter of its sweep give all three fields together.
C12_ResultOfOneInvocation ==
    \A t \in Tiers :
        result[t].present =>
            \E i \in 1..Len(Combos(t)) :
                \E p \in ParamSpace(t, TotalPips(Combos(t)[i], 1)) :
                    LET doms == Combos(t)[i]
                        regs == TierRegions(t, p, TotalPips(doms, 1))
                        out == TestPuzzleTable[doms][regs]
                    IN /\ result[t].dominoes = doms
                       /\ result[t].regions = regs
                       /\ out.count = 1
                       /\ result[t].solution = out.solution
                       /\ Len(result[t].solution) = Len(doms)

\* The record is populated while another worker of the tier holds a
\* unique solution of a different candidate under the lock.
C12_Witness ==
    \E t \in Tiers :
        /\ result[t].present
        /\ \E k \in 1..Len(threads) :
            /\ threads[k].tier = t
            /\ threads[k].at = "critical"
            /\ threads[k].count = 1
            /\ threads[k].solution # result[t].solution

\* All four workers of the tier have been joined.
TierDone(t) ==
    IF t = "Easy1"
    THEN do_easy1 /\ main_pc \in {"easy2", "easy2_spawn", "easy2_join", "end"}
    ELSE do_easy2 /\ main_pc = "end"

\* C13: after all workers of a tier have been joined, the tier's result is
\* absent only if no (tile combination, parameter) pair of the tier's
\* whole candidate space yields exactly one solution.
C13_AbsentOnlyIfNone ==
    \A t \in Tiers :
        (TierDone(t) /\ ~result[t].present) =>
            \A i \in 1..Len(Combos(t)) :
                \A p \in ParamSpace(t, TotalPips(Combos(t)[i], 1)) :
                    TestPuzzleTable[Combos(t)[i]]
                        [TierRegions(t, p, TotalPips(Combos(t)[i], 1))].count # 1

\* Both tiers have run to their joins: Easy1 swept its whole space and
\* found nothing, Easy2 ended with a record.
C13_Witness ==
    /\ main_pc = "end"
    /\ do_easy1
    /\ do_easy2
    /\ ~result["Easy1"].present
    /\ Len(Combos("Easy1")) > 0
    /\ result["Easy2"].present

\* The four threads of tier t have been started and have all returned.
AllReturned(t) ==
    /\ Len(threads) = NumThreads
    /\ \A k \in 1..Len(threads) : threads[k].tier = t /\ threads[k].at = "returned"

\* C14: candidate index i is processed only by the worker whose thread id
\* is i mod 4, each (candidate, parameter) pair is passed to test_puzzle at
\* most once per tier run, and the shards cover every index: when the
\* four workers have returned without a result, every pair of the space
\* has been tried by the worker owning its index.
C14_RoundRobin ==
    /\ \A key \in DOMAIN invoked :
        /\ key[3] % 4 = key[2]
        /\ key[3] < Len(Combos(key[1]))
        /\ invoked[key] = 1
    /\ \A t \in Tiers :
        (AllReturned(t) /\ ~found[t]) =>
            \A i \in 0..(Len(Combos(t)) - 1) :
                \A p \in ParamSpace(t, TotalPips(Combos(t)[i + 1], 1)) :
                    <<t, i % 4, i, p>> \in DOMAIN invoked

\* A worker has gone on to the second candidate of its shard, four
\* indices after its first.
C14_Witness ==
    \E key \in DOMAIN invoked : key[3] >= 4 /\ key[3] = key[2] + 4

\* C15: a worker reads the found flag once per candidate and once per
\* parameter step, so between any two of its test_puzzle calls; after the
\* flag has become true a worker begins at most one further call, and after
\* that call it neither begins another nor writes the record.
C15_PollsBetweenCalls ==
    \A k \in 1..Len(threads) :
        /\ threads[k].at = "attempt" =>
              threads[k].polls = (IF threads[k].p = FirstParam(threads[k].tier) THEN 2 ELSE 1)
        /\ threads[k].after_found <= 1
        /\ threads[k].after_found = 1 => threads[k].at \notin {"attempt", "store"}

\* A worker that lost: the flag was set while it was inside the step, it
\* made that one call, found no unique solution, polled and returned.
C15_Witness ==
    \E k \in 1..Len(threads) :
        /\ threads[k].after_found = 1
        /\ threads[k].count # 1
        /\ threads[k].at = "returned"
        /\ result[threads[k].tier].present

\* C16: tiers execute sequentially: the threads main holds are all of one
\* tier, a worker of Easy2 exists only when every Easy1 worker has returned
\* and (Easy1 being requested) has been joined, and workers of two tiers
\* never run at the same time.
C16_TiersSequential ==
    /\ \A k \in 1..Len(threads) :
        /\ threads[k].tier = threads[1].tier
        /\ threads[k].tier = "Easy2" =>
              /\ running["Easy1"] = 0
              /\ do_easy1 => TierDone("Easy1")
    /\ ~(running["Easy1"] > 0 /\ running["Easy2"] > 0)

\* An Easy2 worker is inside its sweep after an Easy1 run of four workers
\* that ended with a record.
C16_Witness ==
    /\ do_easy1
    /\ result["Easy1"].present
    /\ running["Easy2"] > 0
    /\ \E k \in 1..Len(threads) :
        threads[k].tier = "Easy2" /\ threads[k].at = "attempt"

\* ------------------------------------------------------------------------
\* Scheduling: main and every started thread keep being scheduled.  A
\* worker takes result_mutex at most once and releases it on its way out,
\* so weak fairness is enough for the lock as well.
\* ------------------------------------------------------------------------
MainStep == MainEasy1 \/ MainEasy2 \/ MainSpawn \/ MainJoin

WorkerStep(k) == k <= Len(threads) /\ Worker(k)

SpecMainFair ==
    /\ SpecMain
    /\ WF_vars(MainStep)
    /\ \A k \in 1..NumThreads : WF_vars(WorkerStep(k))

\* C17: under fair scheduling every tier run terminates: every worker
\* returns and is joined, nobody is left waiting on the result lock, and
\* main reaches its end whether or not a result was found.
C17_Terminates ==
    <>(/\ main_pc = "end"
       /\ threads = <<>>
       /\ result_mutex = 0
       /\ \A t \in Tiers : running[t] = 0)

\* main has finished after running both tiers without any result, the
\* workers having made test_puzzle calls.
C17_Witness ==
    /\ main_pc = "end"
    /\ do_easy1
    /\ do_easy2
    /\ calls > 0
    /\ ~result["Easy1"].present
    /\ ~result["Easy2"].present
    /\ \A t \in Tiers : running[t] = 0

\* C18: the shared attempts counter never decreases, every test_puzzle
\* call of any worker adds exactly one to it whatever the interleaving, and
\* whenever no worker is running (in particular after the joins) it equals
\* the number of test_puzzle calls made by all workers of all tiers so far.
C18_AttemptsCounter ==
    /\ []((\A t \in Tiers : running[t] = 0) => total_attempts = calls)
    /\ [][/\ total_attempts' >= total_attempts
          /\ total_attempts' - total_attempts = calls' - calls]_vars

\* Both tiers have run and been joined, Easy1 with a record, and the
\* workers of the two tiers have made at least eight calls together.
C18_Witness ==
    /\ main_pc = "end"
    /\ do_easy1
    /\ do_easy2
    /\ result["Easy1"].present
    /\ calls >= 8
    /\ Len(easy2_pool) = 2

\* Position of tile d in the duplicate-free list pool.
PositionIn(pool, d) == CHOOSE i \in 1..Len(pool) : pool[i] = d

\* out holds exactly the tiles of pool outside the set excluded, once
\* each and in pool order.
IsDifference(out, pool, excluded) ==
    /\ Range(out) = Range(pool) \ excluded
    /\ Len(out) = Cardinality(Range(pool) \ excluded)
    /\ \A a, b \in 1..Len(out) :
        a < b => PositionIn(pool, out[a]) < PositionIn(pool, out[b])

\* main has computed the pool of the Easy2 workers.
Easy2PoolSet == do_easy2 /\ main_pc \in {"easy2_spawn", "easy2_join", "end"}

\* C19: when Easy1 has found a result, the pool given to the Easy2 workers
\* is the full pool with exactly the tiles of that result removed, in pool
\* order, the operator's exclusion list not being applied; when Easy1 found
\* nothing it is the full pool minus exactly the exclusion list; and the
\* full pool and the exclusion list are never modified.
C19_TierChaining ==
    /\ [](Easy2PoolSet =>
            IF result["Easy1"].present
            THEN IsDifference(easy2_pool, all_d6, Range(result["Easy1"].dominoes))
            ELSE IsDifference(easy2_pool, all_d6, Range(exclude_list)))
    /\ [][all_d6' = all_d6 /\ exclude_list' = exclude_list]_vars

\* The Easy2 workers are being joined on a pool from which the tiles of
\* the Easy1 result were removed, while a tile of the operator's
\* exclusion list is still in it.
C19_Witness ==
    /\ main_pc = "easy2_join"
    /\ result["Easy1"].present
    /\ Len(easy2_pool) = Len(all_d6) - Len(result["Easy1"].dominoes)
    /\ \E k \in 1..Len(exclude_list) : exclude_list[k] \in Range(easy2_pool)

\* ------------------------------------------------------------------------
\* The Solver on region lists that do not describe the rows x cols grid
\* ------------------------------------------------------------------------
Below == << <<2,0>>, <<2,1>> >>

\* Region lists for a 2x2 grid that leave out the second row, that add
\* two cells below the grid, or whose inequality region is linked to
\* itself.
BadRegionLists ==
    {<< MkRegion(0, Row0, k) >> : k \in SumKinds \cup {EqualKind}}
    \cup {<< MkRegion(0, Whole2x2, k0), MkRegion(1, Below, k1) >> :
            k0 \in SumKinds, k1 \in SumKinds}
    \cup {<< MkRegion(0, Row0, k0), MkRegion(1, Row1, k1) >> :
            k0 \in OrderKinds(0), k1 \in SumKinds}

\* The constructor stores rows and cols and builds its maps from the
\* region list alone.
InitBad ==
    \/ \E doms \in DominoLists, regs \in BadRegionLists :
          InitSolver(2, 2, doms, regs, MaxCap, FALSE)
    \/ \E doms \in DominoLists, regs \in BadRegionLists :
          InitSolver(2, 2, doms, regs, TestPuzzleCap, TRUE)

SpecBad == InitBad /\ [][Next]_vars

GridCells == (0..(rows - 1)) \X (0..(cols - 1))

\* The configuration is malformed in one of the ways named by the claim.
Malformed ==
    \/ \E cell \in GridCells : cell \notin all_cells(regions)
    \/ \E cell \in all_cells(regions) : cell \notin GridCells
    \/ \E i \in 1..Len(regions) :
        /\ regions[i].type \in {"LESS", "GREATER"}
        /\ \/ regions[i].linked_region_id = regions[i].id
           \/ \A j \in 1..Len(regions) : regions[j].id # regions[i].linked_region_id

\* C20: a malformed configuration (a grid cell in no region, a region cell
\* outside the grid, an inequality region linked to itself or to no
\* region) is detected before the search begins, so the search never runs
\* on it and no solution count is reported for it.
C20_MalformedRejected ==
    Malformed => ~(pc = "done" /\ count >= 0)

\* ------------------------------------------------------------------------
\* The Solver on the smallest grids: no cell at all, and one row of two
\* cells
\* ------------------------------------------------------------------------
SmallRegionLists ==
    {<< MkRegion(0, Row0, k) >> : k \in SumKinds \cup {EqualKind}}

InitSmall ==
    \/ \E doms \in DominoLists, cap \in 0..MaxCap :
          InitSolver(0, 0, doms, <<>>, cap, FALSE)
    \/ \E doms \in DominoLists :
          InitSolver(0, 0, doms, <<>>, TestPuzzleCap, TRUE)
    \/ \E doms \in DominoLists, regs \in SmallRegionLists, cap \in 0..MaxCap :
          InitSolver(1, 2, doms, regs, cap, FALSE)

SpecSmall == InitSmall /\ [][Next]_vars

\* C21: solve on a grid with zero cells (empty region list) returns 0
\* solutions.
C21_EmptyGridZero ==
    (regions = <<>> /\ pc = "done") => count = 0

\* ------------------------------------------------------------------------
\* Direct calls of get_combinations
\* ------------------------------------------------------------------------
\* Longest vector passed to get_combinations.
MaxVec == 4

CombTiles == {Pool[i] : i \in 1..5}

\* Vectors of distinct tiles, in any order.
CombPools ==
    UNION {{v \in [1..m -> CombTiles] : \A a, b \in 1..m : a # b => v[a] # v[b]} :
              m \in 0..MaxVec}

InitComb ==
    /\ rows = 0
    /\ cols = 0
    /\ DriverIdle
    /\ dominoes = <<>>
    /\ regions = <<>>
    /\ max_solutions = 0
    /\ via_test = FALSE
    /\ solutions = <<>>
    /\ seen_signatures = {}
    /\ stack = <<>>
    /\ pc = "comb"
    /\ count = -1
    /\ solution_out = <<>>
    /\ out_written = FALSE
    /\ runs = 0
    /\ first_run = [count |-> -1, placed |-> <<>>]
    /\ cc_out = <<>>
    /\ \E vec \in CombPools, n \in 0..(MaxVec + 1) :
          cc_in = [idx |-> 0, vec |-> vec, n |-> n]

GetCombinationsCall ==
    /\ pc = "comb"
    /\ cc_out' = get_combinations(cc_in.vec, cc_in.n)
    /\ pc' = "comb_done"
    /\ UNCHANGED driverVars
    /\ UNCHANGED <<rows, cols, dominoes, regions, max_solutions, solutions, seen_signatures,
                   stack, count, via_test, solution_out, out_written, runs,
                   first_run, cc_in>>

NextComb == GetCombinationsCall

SpecComb == InitComb /\ [][NextComb]_vars

\* The binomial coefficient C(m, n).
RECURSIVE Binom(_, _)
Binom(m, n) ==
    IF n = 0 THEN 1
    ELSE IF m = 0 THEN 0
    ELSE Binom(m - 1, n - 1) + Binom(m - 1, n)

\* The elements of vec at the indices of S, by increasing index.
RECURSIVE AtIndices(_, _)
AtIndices(vec, S) ==
    IF S = {} THEN <<>>
    ELSE LET lo == CHOOSE i \in S : \A j \in S : i <= j
         IN <<vec[lo]>> \o AtIndices(vec, S \ {lo})

\* The indices in vec of the elements of the combination c.
IndicesOf(vec, c) == [j \in 1..Len(c) |-> CHOOSE i \in 1..Len(vec) : vec[i] = c[j]]

\* Index tuple a comes before index tuple b in lexicographic order.
LexLess(a, b) ==
    \E j \in 1..Len(a) :
        /\ a[j] < b[j]
        /\ \A h \in 1..(j - 1) : a[h] = b[h]

\* C22: get_combinations(pool, n) returns every n-element subset of the
\* pool exactly once, C(|pool|, n) results in all, each as the elements at
\* strictly increasing pool indices, in lexicographic index order; it
\* returns nothing when n > |pool|, and the pool is left unchanged.
C22_Combinations ==
    /\ [](pc = "comb_done" =>
            LET vec == cc_in.vec
                n == cc_in.n
                subsets == {S \in SUBSET (1..Len(vec)) : Cardinality(S) = n}
            IN /\ Len(cc_out) = Binom(Len(vec), n)
               /\ Range(cc_out) = {AtIndices(vec, S) : S \in subsets}
               /\ \A a, b \in 1..Len(cc_out) :
                    a < b => LexLess(IndicesOf(vec, cc_out[a]), IndicesOf(vec, cc_out[b]))
               /\ n > Len(vec) => cc_out = <<>>)
    /\ [][cc_in' = cc_in]_vars

\* The six pairs of a four-element vector have been returned.
C22_Witness ==
    /\ pc = "comb_done"
    /\ Len(cc_in.vec) = 4
    /\ cc_in.n = 2
    /\ Len(cc_out) = 6

\* ------------------------------------------------------------------------
\* Properties of the states of the search (specification Spec)
\* ------------------------------------------------------------------------
\* Every SUM region of regs is within its target on the filled cells of
\* state (at it once full) and every EQUAL region's filled cells agree.
PartialOk(regs, state) ==
    \A r \in Range(regs) :
        LET F == FilledMembers(r, state.filled_cells) IN
        /\ r.type = "SUM" =>
              /\ SetSum(F, state.cell_values) <= r.target_value
              /\ Members(r) \subseteq state.filled_cells =>
                    SetSum(F, state.cell_values) = r.target_value
        /\ r.type = "EQUAL" =>
              \A a \in F, b \in F : state.cell_values[a] = state.cell_values[b]

\* C23: in every state passed to backtrack each SUM region's sum over its
\* filled cells is at most its target (the target once the region is full)
\* and each EQUAL region's filled cells share one value: a placement
\* breaking either in a region it touches is never recursed into.
C23_StatesWithinConstraints ==
    \A i \in 1..Len(stack) : PartialOk(regions, stack[i].state)

\* backtrack has been entered on a state with one placement that fills a
\* second, SUM, region only in part, the first region being SUM or EQUAL.
C23_Witness ==
    /\ Len(stack) >= 2
    /\ Top.at = "enter"
    /\ Len(regions) = 2
    /\ regions[1].type \in {"SUM", "EQUAL"}
    /\ regions[2].type = "SUM"
    /\ Cardinality(FilledMembers(regions[2], Top.state.filled_cells)) = 1
    /\ Cardinality(FilledMembers(regions[1], Top.state.filled_cells)) = 1

\* ------------------------------------------------------------------------
\* Direct calls of choose_cell on arbitrary filled sets
\* ------------------------------------------------------------------------
ChooseRegionLists == CCRegionLists \cup {ScenarioARegions}

InitCell ==
    /\ rows = 0
    /\ cols = 0
    /\ DriverIdle
    /\ dominoes = <<>>
    /\ regions = <<>>
    /\ max_solutions = 0
    /\ via_test = FALSE
    /\ solutions = <<>>
    /\ seen_signatures = {}
    /\ stack = <<>>
    /\ pc = "cell"
    /\ count = -1
    /\ solution_out = <<>>
    /\ out_written = FALSE
    /\ runs = 0
    /\ first_run = [count |-> -1, placed |-> <<>>]
    /\ cc_out = <<>>
    /\ \E regs \in ChooseRegionLists :
       \E filled \in SUBSET all_cells(regs) :
          cc_in = [idx |-> 0, regions |-> regs, filled |-> filled]

ChooseCellCall ==
    /\ pc = "cell"
    /\ cc_out' = choose_cell(cc_in.regions,
                             [placed |-> <<>>, used_dominoes |-> {},
                              filled_cells |-> cc_in.filled, cell_values |-> <<>>])
    /\ pc' = "cell_done"
    /\ UNCHANGED driverVars
    /\ UNCHANGED <<rows, cols, dominoes, regions, max_solutions, solutions, seen_signatures,
                   stack, count, via_test, solution_out, out_written, runs,
                   first_run, cc_in>>

NextCell == ChooseCellCall

SpecCell == InitCell /\ [][NextCell]_vars

\* Cell c comes before cell d in grid scan order.
ScanLess(c, d) == c[1] < d[1] \/ (c[1] = d[1] /\ c[2] < d[2])

\* The number of unfilled cells of the region owning cell c.
OwnerUnfilled(regs, c, filled) ==
    Cardinality(Members(CHOOSE r \in Range(regs) : c \in Members(r)) \ filled)

\* C24: choose_cell returns, among the unfilled cells, a cell whose owning
\* region has the fewest unfilled cells and, among those, the first in
\* scan order (row, then column); it returns (-1,-1) only when no cell is
\* unfilled.
C24_ChooseCell ==
    pc = "cell_done" =>
        LET regs == cc_in.regions
            filled == cc_in.filled
            unfilled == all_cells(regs) \ filled
        IN IF unfilled = {}
           THEN cc_out = <<-1, -1>>
           ELSE /\ cc_out \in unfilled
                /\ \A d \in unfilled \ {cc_out} :
                     \/ OwnerUnfilled(regs, cc_out, filled) < OwnerUnfilled(regs, d, filled)
                     \/ /\ OwnerUnfilled(regs, cc_out, filled) = OwnerUnfilled(regs, d, filled)
                        /\ ScanLess(cc_out, d)

\* The chosen cell is not the first unfilled cell in scan order, its
\* region having fewer unfilled cells, while another cell of a region
\* with as few comes later.
C24_Witness ==
    /\ pc = "cell_done"
    /\ \E d \in all_cells(cc_in.regions) \ cc_in.filled : ScanLess(d, cc_out)
    /\ \E d \in all_cells(cc_in.regions) \ cc_in.filled :
          /\ ScanLess(cc_out, d)
          /\ OwnerUnfilled(cc_in.regions, d, cc_in.filled)
               = OwnerUnfilled(cc_in.regions, cc_out, cc_in.filled)

\* The bookkeeping of one SolverState agrees: used tiles are the tiles of
\* the placed list, one each; filled cells are the keys of the value map
\* and the cells of the placements, two each, none covered twice.
StateConsistent(st) ==
    /\ st.used_dominoes = {st.placed[i].domino : i \in 1..Len(st.placed)}
    /\ Cardinality(st.used_dominoes) = Len(st.placed)
    /\ st.filled_cells = DOMAIN st.cell_values
    /\ Cardinality(st.filled_cells) = 2 * Len(st.placed)
    /\ st.filled_cells = UNION {{cell1(st.placed[i]), cell2(st.placed[i])} :
                                  i \in 1..Len(st.placed)}
    /\ \A i, j \in 1..Len(st.placed) :
          i # j => {cell1(st.placed[i]), cell2(st.placed[i])}
                     \cap {cell1(st.placed[j]), cell2(st.placed[j])} = {}

\* C25: every assignment state of the search has |used| = |placed| with
\* the used-tile set holding exactly the placed tiles, the filled-cell set
\* equal to the key set of the value map, |filled| = 2 * |placed|, and no
\* cell covered by two placements.
C25_StateBookkeeping ==
    /\ \A i \in 1..Len(stack) : StateConsistent(stack[i].state)
    /\ \A i \in 1..Len(solutions) : StateConsistent(solutions[i])

\* backtrack has been entered on a state with two placements while one
\* more tile of the list is unused.
C25_Witness ==
    /\ Len(stack) = 3
    /\ Top.at = "enter"
    /\ Len(Top.state.placed) = 2
    /\ Len(dominoes) = 3

\* C26: backtrack never modifies the state it is given: while the search
\* runs, every activation that stays on the stack keeps its placed list,
\* used-tile set, filled-cell set and value map, across the call of a child
\* and after its return, so each sibling branch starts from the same
\* parent state; the state of a new child is derived from its parent's.
C26_CopyOnBranch ==
    [][(pc = "solving" /\ pc' = "solving") =>
         /\ \A i \in 1..Len(stack) :
               i <= Len(stack') => stack'[i].state = stack[i].state
         /\ Len(stack') > Len(stack) =>
               /\ Len(stack') = Len(stack) + 1
               /\ stack'[Len(stack')].state.placed
                    = Append(stack[Len(stack)].state.placed,
                             stack'[Len(stack')].state.placed[Len(stack[Len(stack)].state.placed) + 1])]_vars

\* A child call has returned after recording a solution, and its parent, a
\* state with one placement, is about to go on with the next branch.
C26_Witness ==
    /\ Len(stack) = 2
    /\ Top.at = "ret"
    /\ Len(Top.state.placed) = 1
    /\ Len(solutions) >= 1
    /\ Len(solutions) < max_solutions

\* ------------------------------------------------------------------------
\* The Hard block of main and the search_hard workers
\* ------------------------------------------------------------------------
HardTiers == {"Medium", "Hard"}

\* The double-six pool and the remainder of the larger set, scaled to the
\* tiles up to [1|1] and the tiles of the double-two set with a 2.
HardD6 == << <<0,0>>, <<0,1>>, <<1,1>> >>
HardD9 == << <<0,2>>, <<1,2>>, <<2,2>> >>

\* medium_result after a Medium run that found the chain on [0|0],[1|1].
MediumRecord ==
    [present |-> TRUE, dominoes |-> << <<0,0>>, <<1,1>> >>,
     regions |-> HardRegions(2), rows |-> 2, cols |-> 2, name |-> "Medium",
     solution |-> TestPuzzleTable[<< <<0,0>>, <<1,1>> >>][HardRegions(2)].solution]

\* unused_d6 as main computes it.
UnusedD6(pool, medium, excl) ==
    IF medium.present THEN exclude_dominoes(pool, medium.dominoes)
    ELSE IF Len(excl) # 0 THEN exclude_dominoes(pool, excl)
    ELSE pool

\* if (do_hard) { hard_pool = d9_remainder; unused_d6 = ...; hard_pool += unused_d6 }
MainHard ==
    /\ main_pc = "hard"
    /\ IF do_hard
       THEN /\ unused_d6' = UnusedD6(all_d6, result["Medium"], exclude_list)
            /\ hard_pool' = d9_remainder \o unused_d6'
            /\ main_pc' = "hard_spawn"
       ELSE /\ main_pc' = "end"
            /\ UNCHANGED <<unused_d6, hard_pool>>
    /\ UNCHANGED <<do_easy1, do_easy2, exclude_list, all_d6, easy2_pool, threads,
                   joined, found, result, result_mutex, total_attempts, invoked,
                   running, calls, do_hard, d9_remainder>>
    /\ UNCHANGED solverVars

\* threads.emplace_back(search_hard, i, ref(d9_remainder), ref(unused_d6))
MainHardSpawn ==
    /\ main_pc = "hard_spawn"
    /\ threads' = Append(threads, NewThread("Hard", Len(threads)))
    /\ running' = [running EXCEPT !["Hard"] = @ + 1]
    /\ IF Len(threads) + 1 = NumThreads
       THEN /\ main_pc' = "hard_join"
            /\ joined' = 0
       ELSE UNCHANGED <<main_pc, joined>>
    /\ UNCHANGED <<do_easy1, do_easy2, exclude_list, all_d6, easy2_pool,
                   found, result, result_mutex, total_attempts, invoked, calls>>
    /\ UNCHANGED solverVars
    /\ UNCHANGED hardVars

\* for (auto& t : threads) t.join();
MainHardJoin ==
    /\ main_pc = "hard_join"
    /\ JoinReady(threads[joined + 1])
    /\ joined' = joined + 1
    /\ main_pc' = IF joined + 1 = Len(threads) THEN "end" ELSE main_pc
    /\ UNCHANGED <<do_easy1, do_easy2, exclude_list, all_d6, easy2_pool, threads,
                   found, result, result_mutex, total_attempts, invoked, running,
                   calls>>
    /\ UNCHANGED solverVars
    /\ UNCHANGED hardVars

\* main at the Hard block in mode "hard" (Medium not run) or after a
\* Medium run that found its record at its second attempt.
InitHard ==
    /\ SolverIdle
    /\ main_pc = "hard"
    /\ do_easy1 = FALSE
    /\ do_easy2 = FALSE
    /\ all_d6 = HardD6
    /\ d9_remainder = HardD9
    /\ exclude_list \in {<<>>, << <<0,1>> >>}
    /\ do_hard \in BOOLEAN
    /\ \E medium \in {NoResult, MediumRecord} :
        /\ result = [t \in HardTiers |-> IF t = "Medium" THEN medium ELSE NoResult]
        /\ found = [t \in HardTiers |-> t = "Medium" /\ medium.present]
        /\ total_attempts = (IF medium.present THEN 2 ELSE 0)
        /\ calls = (IF medium.present THEN 2 ELSE 0)
    /\ result_mutex = 0
    /\ easy2_pool = <<>>
    /\ threads = <<>>
    /\ joined = 0
    /\ invoked = <<>>
    /\ running = [t \in HardTiers |-> 0]
    /\ unused_d6 = <<>>
    /\ hard_pool = <<>>

NextHard ==
    \/ MainHard
    \/ MainHardSpawn
    \/ MainHardJoin
    \/ \E k \in 1..Len(threads) : Worker(k)

SpecHard == InitHard /\ [][NextHard]_vars

\* C27: the Hard workers draw their candidate combinations from the pool
\* formed by d9_remainder together with the double-six tiles left unused
\* by the Medium result (or, Medium having found nothing, the double-six
\* tiles minus the exclusion list): the combination list of every Hard
\* worker is the list of combinations of hard_pool.
C27_HardPool ==
    \A k \in 1..Len(threads) :
        threads[k].tier = "Hard" =>
            /\ hard_pool = d9_remainder
                             \o UnusedD6(all_d6, result["Medium"], exclude_list)
            /\ Combos("Hard") = get_combinations(hard_pool, 2)

\* C28: in every state in which no worker holds result_mutex a tier's
\* found flag is true iff the tier's result record is populated; the flag
\* never goes from true back to false, and a populated record is never
\* cleared or overwritten.
C28_FlagIffResult ==
    /\ [](result_mutex = 0 => \A t \in Tiers : found[t] <=> result[t].present)
    /\ [][\A t \in Tiers :
            /\ found[t] => found'[t]
            /\ result[t].present => result'[t].present /\ result'[t] = result[t]]_vars

\* The lock is free again after the winner of Easy1 has stored its
\* record, the flag is set, and other workers of the tier are still
\* running.
C28_Witness ==
    /\ result_mutex = 0
    /\ found["Easy1"]
    /\ result["Easy1"].present
    /\ running["Easy1"] >= 2
    /\ main_pc = "easy1_join"

====
